---- MODULE Spec2Model ----
(***************************************************************************)
(* A model of src/main.py: the FinanceTracker ledger (add, delete, filter, *)
(* totals, breakdown, balance, JSON save/load) and the FinanceTrackerApp   *)
(* handlers that drive it.                                                 *)
(*                                                                         *)
(* Text (dates in ISO and MM/DD/YYYY form, amounts, the JSON document) is  *)
(* a sequence of one-character strings, so that formatting and parsing are *)
(* computed and not assumed.  Amounts are integers (whole currency units); *)
(* a percentage is an exact fraction [num, den].                           *)
(***************************************************************************)
EXTENDS Integers, Sequences, FiniteSets, TLC

\* Longest ledger the model explores.
MaxLen == 2

VARIABLES
    pc,                     \* "running" | "down" | "failed": the process
    file,                   \* the backing file transactions.json
    transactions,           \* FinanceTracker.transactions
    ledger,                 \* history: the arguments of the adds still in the ledger
    last,                   \* history: the last call made on the tracker
    held,                   \* a caller's reference to a filter_transactions result
    call,                   \* the last analytics call and what it returned
    filtered_transactions,  \* FinanceTrackerApp.filtered_transactions
    transaction_list,       \* the rows of the Treeview, row iid = position
    balance_label,          \* the amount shown by balance_label
    total_labels,           \* the amounts shown by total_income_label and total_expense_label
    message                 \* the last messagebox shown

vars == <<pc, file, transactions, ledger, last, held, call,
          filtered_transactions, transaction_list, balance_label, total_labels, message>>

coreVars == <<pc, file, transactions, ledger, last>>
guiVars == <<filtered_transactions, transaction_list, balance_label, total_labels, message>>

-----------------------------------------------------------------------------
(* Text *)

DigitChars == <<"0", "1", "2", "3", "4", "5", "6", "7", "8", "9">>

Digit(n) == DigitChars[n + 1]

IsDigit(c) == \E n \in 1..10 : DigitChars[n] = c

DigitValue(c) == (CHOOSE n \in 1..10 : DigitChars[n] = c) - 1

AllDigits(s) == Len(s) > 0 /\ \A i \in 1..Len(s) : IsDigit(s[i])

RECURSIVE NatDigits(_)
NatDigits(n) == IF n < 10 THEN <<Digit(n)>>
                ELSE NatDigits(n \div 10) \o <<Digit(n % 10)>>

RECURSIVE DigitsValue(_)
DigitsValue(s) == IF Len(s) = 0 THEN 0
                  ELSE 10 * DigitsValue(SubSeq(s, 1, Len(s) - 1)) + DigitValue(s[Len(s)])

ZeroPad(n, w) ==
    LET d == NatDigits(n)
    IN  IF Len(d) >= w THEN d ELSE [i \in 1..(w - Len(d)) |-> "0"] \o d

Abs(n) == IF n < 0 THEN 0 - n ELSE n

-----------------------------------------------------------------------------
(* datetime.date *)

NoDate == [year |-> 0, month |-> 0, day |-> 0]   \* Python's None where a date may be

DaysInMonth(y, m) ==
    IF m \in {4, 6, 9, 11} THEN 30
    ELSE IF m = 2 THEN (IF (y % 4 = 0 /\ y % 100 # 0) \/ y % 400 = 0 THEN 29 ELSE 28)
    ELSE 31

ValidDate(y, m, d) ==
    /\ y >= 1 /\ y <= 9999
    /\ m >= 1 /\ m <= 12
    /\ d >= 1 /\ d <= DaysInMonth(y, m)

\* date.isoformat(): YYYY-MM-DD, zero padded
isoformat(date) ==
    ZeroPad(date.year, 4) \o <<"-">> \o ZeroPad(date.month, 2) \o <<"-">> \o ZeroPad(date.day, 2)

\* datetime.date.fromisoformat on text written by isoformat
fromisoformat(s) ==
    IF /\ Len(s) = 10
       /\ s[5] = "-" /\ s[8] = "-"
       /\ AllDigits(SubSeq(s, 1, 4)) /\ AllDigits(SubSeq(s, 6, 7)) /\ AllDigits(SubSeq(s, 9, 10))
    THEN [year |-> DigitsValue(SubSeq(s, 1, 4)),
          month |-> DigitsValue(SubSeq(s, 6, 7)),
          day |-> DigitsValue(SubSeq(s, 9, 10))]
    ELSE NoDate

\* date <= date, as Python orders dates
DateLE(a, b) ==
    \/ a.year < b.year
    \/ a.year = b.year /\ a.month < b.month
    \/ a.year = b.year /\ a.month = b.month /\ a.day <= b.day

-----------------------------------------------------------------------------
(* The JSON document: a sequence of the chunks json.dump writes *)

Punct(c) == [kind |-> "punct", text |-> <<c>>]

Str(s) == [kind |-> "str", text |-> <<s>>]

StrChars(s) == [kind |-> "str", text |-> s]

\* repr of a float holding a whole number: 13.0, -2.0, 0.0
float_repr(a) ==
    (IF a < 0 THEN <<"-">> ELSE <<>>) \o NatDigits(Abs(a)) \o <<".", "0">>

Num(a) == [kind |-> "num", text |-> float_repr(a)]

\* one transaction dict, keys in insertion order
dump_object(t) ==
    << Punct("{"),
       Str("amount"), Punct(":"), Num(t.amount), Punct(","),
       Str("category"), Punct(":"), Str(t.category), Punct(","),
       Str("date"), Punct(":"), StrChars(t.date), Punct(","),
       Str("type"), Punct(":"), Str(t.type),
       Punct("}") >>

RECURSIVE dump_items(_)
dump_items(ts) ==
    IF Len(ts) = 1 THEN dump_object(ts[1])
    ELSE dump_items(SubSeq(ts, 1, Len(ts) - 1)) \o <<Punct(",")>> \o dump_object(ts[Len(ts)])

json_dump(ts) ==
    IF Len(ts) = 0 THEN <<Punct("[]")>>
    ELSE <<Punct("[")>> \o dump_items(ts) \o <<Punct("]")>>

ObjectLen == 17

\* the number a JSON number chunk denotes; ok is FALSE when it is no number
parse_number(text) ==
    LET neg == Len(text) > 0 /\ text[1] = "-"
        body == IF neg THEN SubSeq(text, 2, Len(text)) ELSE text
        n == Len(body)
    IN  IF n >= 3 /\ body[n - 1] = "." /\ body[n] = "0" /\ AllDigits(SubSeq(body, 1, n - 2))
        THEN [ok |-> TRUE,
              value |-> IF neg THEN 0 - DigitsValue(SubSeq(body, 1, n - 2))
                        ELSE DigitsValue(SubSeq(body, 1, n - 2))]
        ELSE [ok |-> FALSE, value |-> 0]

\* whether the 17 chunks from position p are one object of four members
object_ok(doc, p) ==
    /\ doc[p] = Punct("{")
    /\ doc[p + 16] = Punct("}")
    /\ \A k \in 0..3 :
        /\ doc[p + 1 + 4 * k].kind = "str"
        /\ doc[p + 2 + 4 * k] = Punct(":")
        /\ doc[p + 3 + 4 * k].kind \in {"str", "num"}
        /\ doc[p + 3 + 4 * k].kind = "num" => parse_number(doc[p + 3 + 4 * k].text).ok
        /\ k < 3 => doc[p + 4 + 4 * k] = Punct(",")

\* the value member k (0..3) of the object at p carries
member_value(doc, p, k) ==
    LET v == doc[p + 3 + 4 * k]
    IN  v

\* the object at p as a dict: looked up by key, whatever the members' order
parse_object(doc, p) ==
    LET at(key) == CHOOSE k \in 0..3 : doc[p + 1 + 4 * k] = Str(key)
    IN  [amount |-> parse_number(member_value(doc, p, at("amount")).text).value,
         category |-> member_value(doc, p, at("category")).text[1],
         date |-> member_value(doc, p, at("date")).text,
         type |-> member_value(doc, p, at("type")).text[1]]

\* json.load: the list the document denotes, or JSONDecodeError
json_load(doc) ==
    IF doc = <<Punct("[]")>> THEN [exc |-> "none", value |-> <<>>]
    ELSE IF /\ Len(doc) >= ObjectLen + 2
            /\ (Len(doc) - 1) % (ObjectLen + 1) = 0
            /\ doc[1] = Punct("[")
            /\ doc[Len(doc)] = Punct("]")
            /\ \A i \in 1..((Len(doc) - 1) \div (ObjectLen + 1)) :
                /\ object_ok(doc, 2 + (i - 1) * (ObjectLen + 1))
                /\ i > 1 => doc[1 + (i - 1) * (ObjectLen + 1)] = Punct(",")
         THEN [exc |-> "none",
               value |-> [i \in 1..((Len(doc) - 1) \div (ObjectLen + 1)) |->
                            parse_object(doc, 2 + (i - 1) * (ObjectLen + 1))]]
         ELSE [exc |-> "JSONDecodeError", value |-> <<>>]

-----------------------------------------------------------------------------
(* FinanceTracker *)

predefined_categories == <<"Salary", "Groceries", "Furniture", "Rent", "Recreation">>

InList(x, s) == \E i \in 1..Len(s) : s[i] = x

AbsentFile == [exists |-> FALSE, complete |-> TRUE, content |-> <<>>]

\* save_transactions: open(filename, "w") and json.dump of the whole list.
\* complete records that the write ran to its end.
save_transactions(ts) == [exists |-> TRUE, complete |-> TRUE, content |-> json_dump(ts)]

\* a save cut short after k chunks: "w" has emptied the file, k chunks are in it
save_interrupted(ts, k) ==
    [exists |-> TRUE, complete |-> FALSE, content |-> SubSeq(json_dump(ts), 1, k)]

\* open(filename, "r") and json.load
open_and_load(f) ==
    IF ~f.exists THEN [exc |-> "FileNotFoundError", value |-> <<>>]
    ELSE json_load(f.content)

\* load_transactions catching FileNotFoundError alone
load_transactions_one_except(f) ==
    LET r == open_and_load(f)
    IN  IF r.exc = "FileNotFoundError" THEN [exc |-> "none", value |-> <<>>] ELSE r

\* load_transactions: the two exceptions it catches leave an empty list
load_transactions(f) ==
    LET r == open_and_load(f)
    IN  IF r.exc \in {"FileNotFoundError", "JSONDecodeError"}
        THEN [exc |-> "none", value |-> <<>>]
        ELSE r

\* list_del with the position taken as one-based
list_del_one_based(ts, index) ==
    SubSeq(ts, 1, index - 1) \o SubSeq(ts, index + 1, Len(ts))

\* del list[index] for 0 <= index < len(list)
list_del(ts, index) ==
    SubSeq(ts, 1, index) \o SubSeq(ts, index + 2, Len(ts))

\* Python's del list[index] for any index: a negative index counts from the
\* end, an index outside the list raises IndexError
python_del(ts, index) ==
    IF index >= 0 /\ index < Len(ts) THEN [exc |-> "none", value |-> list_del(ts, index)]
    ELSE IF index < 0 /\ index + Len(ts) >= 0
         THEN [exc |-> "none", value |-> list_del(ts, index + Len(ts))]
         ELSE [exc |-> "IndexError", value |-> ts]

\* delete_guard without its lower bound
delete_guard_no_lower(index, n) == index < n

\* the guard of delete_transaction
delete_guard(index, n) == 0 <= index /\ index < n

\* the dict add_transaction builds
new_transaction(amount, category, date, transaction_type) ==
    [amount |-> amount, category |-> category, date |-> isoformat(date), type |-> transaction_type]

NoCall == [op |-> "none", index |-> 0]

\* add_transaction saving before it appends
add_transaction_save_first(amount, category, date, transaction_type) ==
    /\ transactions' = Append(transactions, new_transaction(amount, category, date, transaction_type))
    /\ file' = save_transactions(transactions)
    /\ ledger' = Append(ledger, [amount |-> amount, category |-> category,
                                 date |-> date, type |-> transaction_type])
    /\ last' = [op |-> "add", index |-> 0]
    /\ pc' = pc

\* FinanceTracker.add_transaction
add_transaction(amount, category, date, transaction_type) ==
    /\ transactions' = Append(transactions, new_transaction(amount, category, date, transaction_type))
    /\ file' = save_transactions(transactions')
    /\ ledger' = Append(ledger, [amount |-> amount, category |-> category,
                                 date |-> date, type |-> transaction_type])
    /\ last' = [op |-> "add", index |-> 0]
    /\ pc' = pc

\* FinanceTracker.delete_transaction
delete_transaction(index) ==
    /\ last' = [op |-> "delete", index |-> index]
    /\ IF delete_guard(index, Len(transactions))
       THEN LET r == python_del(transactions, index)
            IN  /\ transactions' = r.value
                /\ pc' = IF r.exc = "none" THEN pc ELSE "failed"
                /\ file' = IF r.exc = "none" THEN save_transactions(transactions') ELSE file
                /\ ledger' = IF index >= 0 /\ index < Len(ledger)
                             THEN [j \in 1..(Len(ledger) - 1) |->
                                     IF j <= index THEN ledger[j] ELSE ledger[j + 1]]
                             ELSE ledger
       ELSE UNCHANGED <<transactions, pc, file, ledger>>

\* FinanceTracker.__init__: a new process constructs the tracker on the file
tracker_init ==
    LET r == load_transactions(file)
    IN  /\ transactions' = r.value
        /\ pc' = IF r.exc = "none" THEN "running" ELSE "failed"
        /\ ledger' = IF file.exists /\ file.complete THEN ledger ELSE <<>>
        /\ last' = [op |-> "init", index |-> 0]
        /\ file' = file

\* t["category"] not in self.predefined_categories
filter_other(ts) == SelectSeq(ts, LAMBDA t : ~InList(t.category, predefined_categories))

filter_category(ts, category) == SelectSeq(ts, LAMBDA t : t.category = category)

filter_type(ts, transaction_type) == SelectSeq(ts, LAMBDA t : t.type = transaction_type)

\* filter_start with the bound left out of the range
filter_start_exclusive(ts, start_date) ==
    SelectSeq(ts, LAMBDA t : ~DateLE(fromisoformat(t.date), start_date))

\* datetime.date.fromisoformat(t["date"]) >= start_date
filter_start(ts, start_date) == SelectSeq(ts, LAMBDA t : DateLE(start_date, fromisoformat(t.date)))

\* datetime.date.fromisoformat(t["date"]) <= end_date
filter_end(ts, end_date) == SelectSeq(ts, LAMBDA t : DateLE(fromisoformat(t.date), end_date))

\* FinanceTracker.filter_transactions on the list ts (self.transactions).
\* alias: the value returned is the list object ts itself, which is so when
\* no branch has rebound `filtered` to a new list.
filter_transactions(ts, category, transaction_type, start_date, end_date) ==
    LET f0 == [alias |-> TRUE, items |-> ts]
        f1 == IF category = "Other"
              THEN [alias |-> FALSE, items |-> filter_other(f0.items)]
              ELSE IF category # "" /\ category # "All"
                   THEN [alias |-> FALSE, items |-> filter_category(f0.items, category)]
                   ELSE f0
        f2 == IF transaction_type # "" /\ transaction_type # "All"
              THEN [alias |-> FALSE, items |-> filter_type(f1.items, transaction_type)]
              ELSE f1
        f3 == IF start_date # NoDate
              THEN [alias |-> FALSE, items |-> filter_start(f2.items, start_date)]
              ELSE f2
        f4 == IF end_date # NoDate
              THEN [alias |-> FALSE, items |-> filter_end(f3.items, end_date)]
              ELSE f3
    IN  f4

\* sum(t["amount"] for t in ts if t["type"] == transaction_type), left to right from 0
RECURSIVE sum_of_type(_, _)
sum_of_type(ts, transaction_type) ==
    IF Len(ts) = 0 THEN 0
    ELSE sum_of_type(SubSeq(ts, 1, Len(ts) - 1), transaction_type)
         + (IF ts[Len(ts)].type = transaction_type THEN ts[Len(ts)].amount ELSE 0)

\* FinanceTracker.calculate_totals
calculate_totals(ts) ==
    [total_income |-> sum_of_type(ts, "Income"), total_expense |-> sum_of_type(ts, "Expense")]

\* view_balance taken over the transactions of one category
view_balance_of_subset(ts) ==
    sum_of_type(filter_category(ts, "Salary"), "Income")
    - sum_of_type(filter_category(ts, "Salary"), "Expense")

\* FinanceTracker.view_balance, on the list ts (self.transactions)
view_balance(ts) == sum_of_type(ts, "Income") - sum_of_type(ts, "Expense")

\* the defaultdict(float) the loop of calculate_category_breakdown fills for one
\* type: a key for each category seen with that type, its amounts added up
RECURSIVE category_totals(_, _)
category_totals(ts, transaction_type) ==
    IF Len(ts) = 0 THEN <<>>
    ELSE LET before == category_totals(SubSeq(ts, 1, Len(ts) - 1), transaction_type)
             t == ts[Len(ts)]
         IN  IF t.type # transaction_type THEN before
             ELSE [c \in (DOMAIN before) \cup {t.category} |->
                     (IF c \in DOMAIN before THEN before[c] ELSE 0)
                     + (IF c = t.category THEN t.amount ELSE 0)]

\* sum(totals.values())
RECURSIVE sum_values(_, _)
sum_values(totals, keys) ==
    IF keys = {} THEN 0
    ELSE LET c == CHOOSE k \in keys : TRUE
         IN  totals[c] + sum_values(totals, keys \ {c})

\* (amount / total * 100) if total > 0 else 0, as an exact fraction
percentage(amount, total) ==
    IF total > 0 THEN [num |-> amount * 100, den |-> total] ELSE [num |-> 0, den |-> 1]

\* one of the two dicts calculate_category_breakdown returns
percentages(ts, transaction_type) ==
    LET totals == category_totals(ts, transaction_type)
        total == sum_values(totals, DOMAIN totals)
    IN  [c \in DOMAIN totals |-> percentage(totals[c], total)]

\* FinanceTracker.calculate_category_breakdown
calculate_category_breakdown(ts) ==
    [income_percentages |-> percentages(ts, "Income"),
     expense_percentages |-> percentages(ts, "Expense")]

-----------------------------------------------------------------------------
(* The tracker driven through its methods by any caller *)

Types == {"Income", "Expense"}

Amounts == {0 - 2, 13}

Categories == {"Salary", "Gift"}

Dates == {[year |-> 2023, month |-> 12, day |-> 31], [year |-> 2024, month |-> 1, day |-> 5]}

\* the indexes a caller passes to delete_transaction: inside and outside the list
Indexes == (0 - 1)..MaxLen

NoHeld == [alias |-> FALSE, items |-> <<>>]

Init ==
    /\ pc = "running"
    /\ file = AbsentFile
    /\ transactions = <<>>
    /\ ledger = <<>>
    /\ last = [op |-> "init", index |-> 0]
    /\ held = NoHeld
    /\ call = NoCall
    /\ filtered_transactions = NoHeld
    /\ transaction_list = <<>>
    /\ balance_label = <<"$", "0", ".", "0", "0">>
    /\ total_labels = [income |-> <<"$", "0", ".", "0", "0">>, expense |-> <<"$", "0", ".", "0", "0">>]
    /\ message = "none"

Add ==
    /\ pc = "running"
    /\ Len(transactions) < MaxLen
    /\ \E amount \in Amounts, category \in Categories, date \in Dates, transaction_type \in Types :
        add_transaction(amount, category, date, transaction_type)
    /\ UNCHANGED <<held, call, guiVars>>

Delete ==
    /\ pc = "running"
    /\ \E index \in Indexes : delete_transaction(index)
    /\ UNCHANGED <<held, call, guiVars>>

\* the process dies inside save_transactions, k chunks of the list ts written:
\* its memory is gone and nothing of the ledger is durable any more
crash_in_save(ts, k) ==
    /\ file' = save_interrupted(ts, k)
    /\ pc' = "down"
    /\ transactions' = <<>>
    /\ last' = [op |-> "crash", index |-> 0]
    /\ ledger' = <<>>

\* the transaction whose save is cut short
CrashAmounts == {13}

CrashDates == {[year |-> 2024, month |-> 1, day |-> 5]}

\* add_transaction, the process dying in its save.  (A save cut short inside
\* delete_transaction leaves a prefix of the dump of a shorter list, and each
\* such prefix is also a prefix left here.)
AddCrash ==
    /\ pc = "running"
    /\ Len(transactions) < MaxLen
    /\ \E amount \in CrashAmounts, category \in {"Gift"}, date \in CrashDates,
          transaction_type \in {"Expense"} :
        LET ts == Append(transactions, new_transaction(amount, category, date, transaction_type))
        IN  \E k \in 0..(Len(json_dump(ts)) - 1) : crash_in_save(ts, k)
    /\ UNCHANGED <<held, call, guiVars>>

\* the process ends between two calls; its memory is gone, the file stays
Exit ==
    /\ pc = "running"
    /\ pc' = "down"
    /\ transactions' = <<>>
    /\ last' = [op |-> "exit", index |-> 0]
    /\ UNCHANGED <<file, ledger, held, call, guiVars>>

\* a new process constructs FinanceTracker on the same file
Start ==
    /\ pc = "down"
    /\ tracker_init
    /\ UNCHANGED <<held, call, guiVars>>

Next == Add \/ Delete \/ AddCrash \/ Exit \/ Start

Spec == Init /\ [][Next]_vars

-----------------------------------------------------------------------------
(* Properties of the ledger store *)

\* the sum of f over the positions in S
RECURSIVE SumAt(_, _)
SumAt(S, ts) ==
    IF S = {} THEN 0
    ELSE LET i == CHOOSE j \in S : TRUE
         IN  ts[i].amount + SumAt(S \ {i}, ts)

PositionsOfType(ts, transaction_type) == {i \in 1..Len(ts) : ts[i].type = transaction_type}

\* C1: round-trip persistence.  A process constructed on the file left by
\* earlier adds (and deletes) holds exactly the transactions added and not
\* deleted, in insertion order, each with the amount, category, date and type
\* that was passed to add_transaction.
C1_RoundTrip ==
    (last.op = "init" /\ pc # "down") =>
        /\ pc = "running"
        /\ Len(transactions) = Len(ledger)
        /\ \A i \in 1..Len(ledger) :
            /\ transactions[i].amount = ledger[i].amount
            /\ transactions[i].category = ledger[i].category
            /\ fromisoformat(transactions[i].date) = ledger[i].date
            /\ transactions[i].type = ledger[i].type

\* a restarted process holding two different transactions read from the file
C1_Witness ==
    /\ last.op = "init"
    /\ pc = "running"
    /\ file.exists /\ file.complete
    /\ Len(transactions) = 2
    /\ transactions[1] # transactions[2]

C3_OutOfRangeDeleteIsNoOp ==
    [][(pc = "running" /\ last'.op = "delete"
        /\ (last'.index < 0 \/ last'.index >= Len(transactions))) =>
          /\ transactions' = transactions
          /\ file' = file
          /\ pc' = "running"]_vars

\* delete_transaction(-1) has been called on a full ledger, which is still full
C3_Witness ==
    /\ last = [op |-> "delete", index |-> 0 - 1]
    /\ pc = "running"
    /\ Len(transactions) = MaxLen

\* C4: view_balance() is the sum of the Income amounts of the whole list minus
\* the sum of its Expense amounts, and 0 for the empty list.
C4_BalanceOfWholeStore ==
    pc = "running" =>
        /\ view_balance(transactions) =
             SumAt(PositionsOfType(transactions, "Income"), transactions)
             - SumAt(PositionsOfType(transactions, "Expense"), transactions)
        /\ transactions = <<>> => view_balance(transactions) = 0

\* a ledger with an Income and an Expense of different categories
C4_Witness ==
    /\ pc = "running"
    /\ Len(transactions) = 2
    /\ transactions[1].type = "Income" /\ transactions[2].type = "Expense"
    /\ transactions[1].category # transactions[2].category
    /\ view_balance(transactions) # 0

-----------------------------------------------------------------------------
(* A caller that keeps what filter_transactions returned *)

HoldAmounts == {13}

HoldDates == {[year |-> 2024, month |-> 1, day |-> 5]}

HoldFilterCategories == {"All", "", "Salary", "Other"}

HoldFilterTypes == {"All", "Income"}

\* the list a reference to a filter result denotes now
Deref(ref) == IF ref.alias THEN transactions ELSE ref.items

HoldAdd ==
    /\ pc = "running"
    /\ Len(transactions) < MaxLen
    /\ \E amount \in HoldAmounts, category \in Categories, date \in HoldDates,
          transaction_type \in Types :
        add_transaction(amount, category, date, transaction_type)
    /\ UNCHANGED <<held, call, guiVars>>

HoldDelete ==
    /\ pc = "running"
    /\ \E index \in Indexes : delete_transaction(index)
    /\ UNCHANGED <<held, call, guiVars>>

\* the caller calls filter_transactions and keeps the list it returns
HoldFilter ==
    /\ pc = "running"
    /\ \E category \in HoldFilterCategories, transaction_type \in HoldFilterTypes,
          start_date \in {NoDate} \cup HoldDates :
        held' = filter_transactions(transactions, category, transaction_type, start_date, NoDate)
    /\ last' = [op |-> "filter", index |-> 0]
    /\ UNCHANGED <<pc, file, transactions, ledger, call, guiVars>>

NextHold == HoldAdd \/ HoldDelete \/ HoldFilter

SpecHold == Init /\ [][NextHold]_vars

\* C5: filter_transactions returns a new sequence and never mutates its
\* input: the call leaves the store's list as it was, and an add or delete
\* made afterwards does not change the list the call returned.
C5_FilterResultIsIndependent ==
    [][/\ last'.op = "filter" => transactions' = transactions
       /\ last'.op \in {"add", "delete"} => Deref(held)' = Deref(held)]_vars

-----------------------------------------------------------------------------
(* The analytics functions applied to any list of transactions *)

\* the state of a tracker that holds the list ts, every save complete
TrackerHolding(ts) ==
    /\ pc = "running"
    /\ transactions = ts
    /\ file = save_transactions(ts)
    /\ ledger = [i \in 1..Len(ts) |->
                   [amount |-> ts[i].amount, category |-> ts[i].category,
                    date |-> fromisoformat(ts[i].date), type |-> ts[i].type]]
    /\ last = [op |-> "init", index |-> 0]
    /\ held = NoHeld
    /\ call = NoCall
    /\ filtered_transactions = NoHeld
    /\ transaction_list = <<>>
    /\ balance_label = <<"$", "0", ".", "0", "0">>
    /\ total_labels = [income |-> <<"$", "0", ".", "0", "0">>, expense |-> <<"$", "0", ".", "0", "0">>]
    /\ message = "none"

ListsOver(txs) == UNION {[1..n -> txs] : n \in 0..MaxLen}

FilterTx ==
    {new_transaction(13, category, date, transaction_type) :
        category \in Categories, date \in Dates, transaction_type \in Types}

FilterCategories == {"All", "", "Other", "Salary"}

FilterTypes == {"All", "", "Expense"}

FilterDates == {NoDate} \cup Dates

InitFilter == \E ts \in ListsOver(FilterTx) : TrackerHolding(ts)

BreakdownAmounts == {0 - 2, 0, 3}

BreakdownTx ==
    {new_transaction(amount, category, date, transaction_type) :
        amount \in BreakdownAmounts, category \in Categories, date \in HoldDates,
        transaction_type \in Types}

InitBreakdown == \E ts \in ListsOver(BreakdownTx) : TrackerHolding(ts)

CallFilter ==
    /\ call = NoCall
    /\ \E category \in FilterCategories, transaction_type \in FilterTypes,
          start_date \in FilterDates, end_date \in FilterDates :
        call' = [op |-> "filter", category |-> category, type |-> transaction_type,
                 start_date |-> start_date, end_date |-> end_date,
                 result |-> filter_transactions(transactions, category, transaction_type,
                                                start_date, end_date).items]
    /\ UNCHANGED <<coreVars, held, guiVars>>

CallTotals ==
    /\ call = NoCall
    /\ call' = [op |-> "totals", result |-> calculate_totals(transactions)]
    /\ UNCHANGED <<coreVars, held, guiVars>>

CallBreakdown ==
    /\ call = NoCall
    /\ call' = [op |-> "breakdown", result |-> calculate_category_breakdown(transactions)]
    /\ UNCHANGED <<coreVars, held, guiVars>>

SpecFilter == InitFilter /\ [][CallFilter]_vars

NextBreakdown == CallTotals \/ CallBreakdown

SpecBreakdown == InitBreakdown /\ [][NextBreakdown]_vars

\* the order of two texts of the same length, character by character
CharRank(c) == IF IsDigit(c) THEN DigitValue(c) + 1 ELSE 0

RECURSIVE TextLE(_, _)
TextLE(a, b) ==
    IF Len(a) = 0 THEN TRUE
    ELSE IF CharRank(Head(a)) # CharRank(Head(b)) THEN CharRank(Head(a)) < CharRank(Head(b))
         ELSE TextLE(Tail(a), Tail(b))

PredefinedSet == {"Salary", "Groceries", "Furniture", "Rent", "Recreation"}

KeepCategory(t, category) ==
    \/ category \in {"All", ""}
    \/ category = "Other" /\ t.category \notin PredefinedSet
    \/ category \notin {"All", "", "Other"} /\ t.category = category

KeepType(t, transaction_type) ==
    transaction_type \in {"All", ""} \/ t.type = transaction_type

KeepStart(t, start_date) == start_date = NoDate \/ TextLE(isoformat(start_date), t.date)

KeepEnd(t, end_date) == end_date = NoDate \/ TextLE(t.date, isoformat(end_date))

\* one of the four filters of filter_transactions, applied on its own
OneFilter(k, ts, c) ==
    CASE k = 1 -> IF c.category = "Other" THEN filter_other(ts)
                  ELSE IF c.category # "" /\ c.category # "All"
                       THEN filter_category(ts, c.category) ELSE ts
      [] k = 2 -> IF c.type # "" /\ c.type # "All" THEN filter_type(ts, c.type) ELSE ts
      [] k = 3 -> IF c.start_date # NoDate THEN filter_start(ts, c.start_date) ELSE ts
      [] k = 4 -> IF c.end_date # NoDate THEN filter_end(ts, c.end_date) ELSE ts

\* what the filters in `todo` give, applied in every possible order
RECURSIVE InAnyOrder(_, _, _)
InAnyOrder(todo, ts, c) ==
    IF todo = {} THEN {ts}
    ELSE UNION {InAnyOrder(todo \ {k}, OneFilter(k, ts, c), c) : k \in todo}

\* C6: filter_transactions returns the transactions, in their order, that
\* satisfy the category, type, start-date and end-date predicates together,
\* both date bounds inclusive; the order the four are applied in does not
\* change the result.
C6_FilterIsConjunction ==
    call.op = "filter" =>
        /\ call.result =
             SelectSeq(transactions,
                       LAMBDA t : /\ KeepCategory(t, call.category)
                                  /\ KeepType(t, call.type)
                                  /\ KeepStart(t, call.start_date)
                                  /\ KeepEnd(t, call.end_date))
        /\ InAnyOrder(1..4, transactions, call) = {call.result}

\* a filter whose two bounds are the same day has kept the transaction of
\* that day and dropped the one of another day and the one of another type
C6_Witness ==
    /\ call.op = "filter"
    /\ call.start_date # NoDate /\ call.start_date = call.end_date
    /\ call.category = "Other" /\ call.type = "Expense"
    /\ Len(transactions) = 2
    /\ Len(call.result) = 1
    /\ fromisoformat(call.result[1].date) = call.start_date

\* the sum of the fractions of a dict of percentages is 100
SumsTo100(d) ==
    LET RECURSIVE NumSum(_)
        NumSum(keys) == IF keys = {} THEN 0
                        ELSE LET c == CHOOSE k \in keys : TRUE
                             IN  d[c].num + NumSum(keys \ {c})
    IN  /\ DOMAIN d # {}
        /\ \A c \in DOMAIN d : NumSum(DOMAIN d) = 100 * d[c].den

AllZero(d) == \A c \in DOMAIN d : d[c].num = 0

\* C7: for each type the percentages of calculate_category_breakdown sum to
\* 100 when that type's total is not zero and are all 0 when it is zero,
\* whatever amounts the list holds.
C7_PercentagesSumTo100 ==
    call.op = "breakdown" =>
        /\ sum_of_type(transactions, "Income") # 0 => SumsTo100(call.result.income_percentages)
        /\ sum_of_type(transactions, "Income") = 0 => AllZero(call.result.income_percentages)
        /\ sum_of_type(transactions, "Expense") # 0 => SumsTo100(call.result.expense_percentages)
        /\ sum_of_type(transactions, "Expense") = 0 => AllZero(call.result.expense_percentages)

-----------------------------------------------------------------------------
(* FinanceTrackerApp: the handlers of the window *)

\* f"${x:.2f}" for a whole amount
money_format(a) ==
    <<"$">> \o (IF a < 0 THEN <<"-">> ELSE <<>>) \o NatDigits(Abs(a)) \o <<".", "0", "0">>

\* date.strftime("%m/%d/%Y")
strftime_mdY(date) ==
    ZeroPad(date.month, 2) \o <<"/">> \o ZeroPad(date.day, 2) \o <<"/">> \o ZeroPad(date.year, 4)

\* float(text) for text made of a sign and decimal digits; anything else
\* of the model's texts raises ValueError
python_float(text) ==
    LET signed == Len(text) > 0 /\ text[1] \in {"-", "+"}
        body == IF signed THEN Tail(text) ELSE text
    IN  IF AllDigits(body)
        THEN [exc |-> "none",
              value |-> IF signed /\ text[1] = "-" THEN 0 - DigitsValue(body) ELSE DigitsValue(body)]
        ELSE [exc |-> "ValueError", value |-> 0]

\* str.split("/")
RECURSIVE split_slash(_)
split_slash(text) ==
    IF \A i \in 1..Len(text) : text[i] # "/" THEN <<text>>
    ELSE LET i == CHOOSE j \in 1..Len(text) :
                    text[j] = "/" /\ \A k \in 1..(j - 1) : text[k] # "/"
         IN  <<SubSeq(text, 1, i - 1)>> \o split_slash(SubSeq(text, i + 1, Len(text)))

\* FinanceTrackerApp.parse_date: the date, or None with or without an error box
parse_date(date_str) ==
    IF date_str = <<>> THEN [date |-> NoDate, error |-> FALSE]
    ELSE LET parts == split_slash(date_str)
         IN  IF /\ Len(parts) = 3
                /\ \A i \in 1..3 : AllDigits(parts[i])
                /\ ValidDate(DigitsValue(parts[3]), DigitsValue(parts[1]), DigitsValue(parts[2]))
             THEN [date |-> [year |-> DigitsValue(parts[3]), month |-> DigitsValue(parts[1]),
                             day |-> DigitsValue(parts[2])],
                   error |-> FALSE]
             ELSE [date |-> NoDate, error |-> TRUE]

\* the rows update_transaction_list inserts: iid is the position in the list shown
rows_of(ts) ==
    [i \in 1..Len(ts) |->
        [iid |-> i - 1,
         amount |-> money_format(ts[i].amount),
         category |-> ts[i].category,
         date |-> strftime_mdY(fromisoformat(ts[i].date)),
         type |-> ts[i].type]]

\* update_totals
totals_text(ts) ==
    [income |-> money_format(calculate_totals(ts).total_income),
     expense |-> money_format(calculate_totals(ts).total_expense)]

\* show_all_transactions, on the tracker's list ts: the app's list is the
\* tracker's own list object
show_all_transactions(ts) ==
    /\ filtered_transactions' = [alias |-> TRUE, items |-> ts]
    /\ transaction_list' = rows_of(ts)
    /\ total_labels' = totals_text(ts)

\* update_balance
update_balance(ts) == balance_label' = money_format(view_balance(ts))

\* what the user may type and pick
AmountTexts == {<<"1", "3">>, <<"-", "2">>, <<"a", "b">>}

MenuChoices == {"Salary", "Other"}

CustomTexts == {"", "Gift", "Other"}

DateTexts ==
    {<<"0", "1", "/", "0", "5", "/", "2", "0", "2", "4">>,
     <<"1", "2", "/", "3", "1", "/", "2", "0", "2", "3">>,
     <<"1", "3", "/", "0", "1", "/", "2", "0", "2", "4">>,
     <<>>}

FilterMenuChoices == {"All", "Salary", "Other"}

FilterDateTexts ==
    {<<"0", "1", "/", "0", "5", "/", "2", "0", "2", "4">>,
     <<"1", "3", "/", "0", "1", "/", "2", "0", "2", "4">>,
     <<>>}

FilterTypeChoices == {"All", "Expense"}

\* FinanceTrackerApp.__init__ on an absent file
InitGui ==
    /\ pc = "running"
    /\ file = AbsentFile
    /\ transactions = <<>>
    /\ ledger = <<>>
    /\ last = [op |-> "init", index |-> 0]
    /\ held = NoHeld
    /\ call = NoCall
    /\ filtered_transactions = [alias |-> TRUE, items |-> <<>>]
    /\ transaction_list = <<>>
    /\ balance_label = money_format(0)
    /\ total_labels = [income |-> money_format(0), expense |-> money_format(0)]
    /\ message = "none"

\* FinanceTrackerApp.add_transaction with the entries and menus as given
gui_add_transaction(amount_text, menu, custom, date_text, transaction_type) ==
    LET amount == python_float(amount_text)
        category == IF menu = "Other" THEN custom ELSE menu
        parsed == parse_date(date_text)
    IN  IF amount.exc # "none" \/ category = ""
        THEN /\ message' = "error"
             /\ UNCHANGED <<coreVars, filtered_transactions, transaction_list,
                            balance_label, total_labels>>
        ELSE IF parsed.date = NoDate
             THEN /\ message' = IF parsed.error THEN "error" ELSE message
                  /\ UNCHANGED <<coreVars, filtered_transactions, transaction_list,
                                 balance_label, total_labels>>
             ELSE /\ add_transaction(amount.value, category, parsed.date, transaction_type)
                  /\ update_balance(transactions')
                  /\ show_all_transactions(transactions')
                  /\ message' = "info"

GuiAdd ==
    /\ pc = "running"
    /\ Len(transactions) < MaxLen
    /\ \E amount_text \in AmountTexts, menu \in MenuChoices, date_text \in DateTexts,
          transaction_type \in Types :
        \* the custom field is read only when "Other" is picked
        \E custom \in (IF menu = "Other" THEN CustomTexts ELSE {""}) :
            gui_add_transaction(amount_text, menu, custom, date_text, transaction_type)
    /\ UNCHANGED <<held, call>>

\* FinanceTrackerApp.apply_filter
apply_filter(category, transaction_type, start_text, end_text) ==
    LET start == parse_date(start_text)
        end == parse_date(end_text)
    IN  IF (start.date = NoDate /\ start_text # <<>>) \/ (end.date = NoDate /\ end_text # <<>>)
        THEN /\ message' = "error"
             /\ UNCHANGED <<coreVars, filtered_transactions, transaction_list,
                            balance_label, total_labels>>
        ELSE LET r == filter_transactions(transactions, category, transaction_type,
                                          start.date, end.date)
             IN  /\ filtered_transactions' = r
                 /\ transaction_list' = rows_of(r.items)
                 /\ total_labels' = totals_text(r.items)
                 /\ last' = [op |-> "filter", index |-> 0]
                 /\ UNCHANGED <<pc, file, transactions, ledger, balance_label, message>>

GuiApplyFilter ==
    /\ pc = "running"
    /\ \E category \in FilterMenuChoices, transaction_type \in FilterTypeChoices,
          start_text \in FilterDateTexts, end_text \in FilterDateTexts :
        apply_filter(category, transaction_type, start_text, end_text)
    /\ UNCHANGED <<held, call>>

\* the Show All Transactions button
GuiShowAll ==
    /\ pc = "running"
    /\ show_all_transactions(transactions)
    /\ UNCHANGED <<coreVars, held, call, balance_label, message>>

\* FinanceTrackerApp.delete_transaction with the row `row` selected, 0 for none
gui_delete_transaction(row) ==
    IF row = 0
    THEN /\ message' = "error"
         /\ UNCHANGED <<coreVars, filtered_transactions, transaction_list,
                        balance_label, total_labels>>
    ELSE /\ delete_transaction(transaction_list[row].iid)
         /\ update_balance(transactions')
         /\ show_all_transactions(transactions')
         /\ message' = message

GuiDelete ==
    /\ pc = "running"
    /\ \E row \in 0..Len(transaction_list) : gui_delete_transaction(row)
    /\ UNCHANGED <<held, call>>

\* the window is closed
GuiQuit ==
    /\ pc = "running"
    /\ pc' = "down"
    /\ transactions' = <<>>
    /\ last' = [op |-> "exit", index |-> 0]
    /\ filtered_transactions' = [alias |-> TRUE, items |-> <<>>]
    /\ transaction_list' = <<>>
    /\ balance_label' = money_format(0)
    /\ total_labels' = [income |-> money_format(0), expense |-> money_format(0)]
    /\ message' = "none"
    /\ UNCHANGED <<file, ledger, held, call>>

\* FinanceTrackerApp.__init__: the program is started again
GuiLaunch ==
    /\ pc = "down"
    /\ tracker_init
    /\ show_all_transactions(transactions')
    /\ update_balance(transactions')
    /\ message' = "none"
    /\ UNCHANGED <<held, call>>

\* the days of timedelta(days=...) in filter_last_week, _month and _year
LastWeekDays == 7

LastMonthDays == 30

LastYearDays == 365

\* the days before 1 January of year y, counted from 1 January of year 1
days_before_year(y) ==
    (y - 1) * 365 + ((y - 1) \div 4) - ((y - 1) \div 100) + ((y - 1) \div 400)

\* date.toordinal()
toordinal(date) ==
    LET RECURSIVE before_month(_)
        before_month(m) == IF m = 1 THEN 0
                           ELSE before_month(m - 1) + DaysInMonth(date.year, m - 1)
    IN  days_before_year(date.year) + before_month(date.month) + date.day

\* date.fromordinal(n), for a day of the years near `near`
fromordinal(n, near) ==
    LET y == CHOOSE c \in (near - 2)..(near + 1) :
                 days_before_year(c) < n /\ n <= days_before_year(c + 1)
        m == CHOOSE c \in 1..12 :
                 /\ toordinal([year |-> y, month |-> c, day |-> 1]) <= n
                 /\ n < toordinal([year |-> y, month |-> c, day |-> 1]) + DaysInMonth(y, c)
    IN  [year |-> y, month |-> m,
         day |-> n - toordinal([year |-> y, month |-> m, day |-> 1]) + 1]

\* date - timedelta(days=days)
minus_days(date, days) == fromordinal(toordinal(date) - days, date.year)

\* what datetime.date.today() returns when a button is pressed
Todays == {[year |-> 2024, month |-> 1, day |-> 10]}

\* FinanceTrackerApp.apply_date_filter, the filter menus as given
apply_date_filter(category, transaction_type, start_date, end_date) ==
    LET r == filter_transactions(transactions, category, transaction_type, start_date, end_date)
    IN  /\ filtered_transactions' = r
        /\ transaction_list' = rows_of(r.items)
        /\ total_labels' = totals_text(r.items)
        /\ last' = [op |-> "filter", index |-> 0]
        /\ UNCHANGED <<pc, file, transactions, ledger, balance_label, message>>

\* FinanceTrackerApp.filter_last_week
GuiLastWeek ==
    /\ pc = "running"
    /\ \E end_date \in Todays, category \in FilterMenuChoices,
          transaction_type \in FilterTypeChoices :
        apply_date_filter(category, transaction_type,
                          minus_days(end_date, LastWeekDays), end_date)
    /\ UNCHANGED <<held, call>>

\* FinanceTrackerApp.filter_last_month
GuiLastMonth ==
    /\ pc = "running"
    /\ \E end_date \in Todays, category \in FilterMenuChoices,
          transaction_type \in FilterTypeChoices :
        apply_date_filter(category, transaction_type,
                          minus_days(end_date, LastMonthDays), end_date)
    /\ UNCHANGED <<held, call>>

\* FinanceTrackerApp.filter_last_year
GuiLastYear ==
    /\ pc = "running"
    /\ \E end_date \in Todays, category \in FilterMenuChoices,
          transaction_type \in FilterTypeChoices :
        apply_date_filter(category, transaction_type,
                          minus_days(end_date, LastYearDays), end_date)
    /\ UNCHANGED <<held, call>>

NextGui ==
    \/ GuiAdd \/ GuiApplyFilter \/ GuiLastWeek \/ GuiLastMonth \/ GuiLastYear
    \/ GuiShowAll \/ GuiDelete \/ GuiQuit \/ GuiLaunch

SpecGui == InitGui /\ [][NextGui]_vars

\* C9: whatever is picked in the category menu and typed in the custom
\* field, no stored transaction has the category "Other", and an add with
\* "Other" picked and an empty custom field leaves the store as it was.
C9_OtherIsNeverStored ==
    \A i \in 1..Len(transactions) : transactions[i].category # "Other"

\* C10: every stored transaction has an amount >= 0: the window rejects an
\* amount text that is no number or is negative, and a malformed date.
C10_AmountsAreNonNegative ==
    \A i \in 1..Len(transactions) : transactions[i].amount >= 0

\* what a row shows of a transaction
Shown(t) == rows_of(<<t>>)[1]

\* C11: when a displayed row is selected and Delete Selected Entry is pressed,
\* the transaction removed from the store is the one that row displays, also
\* when the list displayed is a filtered part of the store.
C11_DeleteRemovesSelectedRow ==
    [][(pc = "running" /\ last'.op = "delete"
        /\ Len(transactions') = Len(transactions) - 1) =>
          LET i == last'.index
          IN  /\ i + 1 <= Len(transaction_list)
              /\ transaction_list[i + 1].amount = Shown(transactions[i + 1]).amount
              /\ transaction_list[i + 1].category = Shown(transactions[i + 1]).category
              /\ transaction_list[i + 1].date = Shown(transactions[i + 1]).date
              /\ transaction_list[i + 1].type = Shown(transactions[i + 1]).type]_vars

====
